---- MODULE Spec2Model ----
(***************************************************************************)
(* Model of StorageServer.WriteObject (fakestorage/grpc_server.go), the    *)
(* client-streamed upload handler of the gRPC front end.                   *)
(*                                                                         *)
(* One upload stream is modelled.  The handler suspends at three calls to  *)
(* its collaborators (writeServer.Recv, backend.CreateObject,              *)
(* writeServer.SendAndClose); each action is one such call together with   *)
(* all the handler code that runs up to the next call or the return.       *)
(*                                                                         *)
(* Text is a sequence of one-character strings.  An unsigned 32-bit value  *)
(* is a record [hi, lo] of two 16-bit limbs (value = hi * 2^16 + lo), so   *)
(* that the whole uint32 range, 4294967295 included, is represented.       *)
(* An optional (pointer) value is <<>> for nil and <<v>> for a pointer to  *)
(* v.                                                                      *)
(***************************************************************************)
EXTENDS Integers, Sequences, FiniteSets, TLC

VARIABLES
    stream,       \* the messages the client puts on the stream, in order
    pc,           \* position of the handler
    recvErr,      \* the error writeServer.Recv returned ("nil" when none)
    reqObj,       \* the backend.Object handed to CreateObject (<<>> before)
    createCalls,  \* number of backend.CreateObject invocations
    createOK,     \* number of those that returned a nil error
    createErr,    \* the error CreateObject returned ("nil" when none)
    created,      \* the object read back from the backend (<<>> when none)
    crc32c,       \* the parsed checksum (<<>> until parsed)
    sendCalls,    \* number of writeServer.SendAndClose invocations
    resp,         \* the pb.Object sent in the response (<<>> when none)
    ret           \* what WriteObject returned ("running" until it returns)

vars == <<stream, pc, recvErr, reqObj, createCalls, createOK, createErr,
          created, crc32c, sendCalls, resp, ret>>

----------------------------------------------------------------------------
(* Bounds of the model *)

\* Longest stream the client sends (messages)
MaxFrames == 2

----------------------------------------------------------------------------
(* Program constants *)

\* strconv.ParseUint(created.Crc32c, 10, 32): base and bitSize
base == 10
bitSize == 32

Limb == 2 ^ (bitSize \div 2)

----------------------------------------------------------------------------
(* Optional values and errors *)

None == <<>>
Some(v) == <<v>>
Get(o) == o[1]

NoError == "nil"
Running == "running"

errUnsupportedWriteOperation == "unsupported write operation"
ErrSyntax == "strconv.ParseUint: invalid syntax"
ErrRange == "strconv.ParseUint: value out of range"

RecvErrors == {"EOF", "rpc: connection error"}
BackendErrors == {"bucket not found", "quota exceeded"}
SendErrors == {"rpc: transport is closing"}

----------------------------------------------------------------------------
(* Unsigned 32-bit values as two 16-bit limbs *)

U32(h, l) == [hi |-> h, lo |-> l]

Zero32 == U32(0, 0)
MaxUint32 == U32(Limb - 1, Limb - 1)

\* The checksum values clients send: 0, small values, both sides of the
\* 16-bit and 31-bit boundaries, and 4294967295.
CrcValues ==
    { Zero32, U32(0, 7), U32(0, 10), U32(0, Limb - 1), U32(1, 0),
      U32(Limb \div 2 - 1, Limb - 1), U32(Limb \div 2, 0),
      U32(Limb - 1, Limb - 2), MaxUint32 }

Digits == <<"0", "1", "2", "3", "4", "5", "6", "7", "8", "9">>

IsDigit(c) == \E i \in 1..base : Digits[i] = c

DigitVal(c) == (CHOOSE i \in 1..base : Digits[i] = c) - 1

\* v \div 10 and v % 10 on limbs
DivBase(v) ==
    LET full == (v.hi % base) * Limb + v.lo
    IN  [q |-> U32(v.hi \div base, full \div base), r |-> full % base]

\* fmt.Sprint(*data.Crc32C): the decimal text of an unsigned 32-bit value,
\* most significant digit first, no sign, no leading zeros.
RECURSIVE FormatUint(_)
FormatUint(v) ==
    IF v.hi = 0 /\ v.lo < base
    THEN <<Digits[v.lo + 1]>>
    ELSE FormatUint(DivBase(v).q) \o <<Digits[DivBase(v).r + 1]>>

\* ParseLoop with the range of a signed 32-bit value (bitSize - 1 bits)
RECURSIVE ParseLoopSigned(_, _, _)
ParseLoopSigned(s, i, n) ==
    IF i > Len(s) THEN [val |-> n, err |-> NoError]
    ELSE IF ~IsDigit(s[i]) THEN [val |-> Zero32, err |-> ErrSyntax]
    ELSE LET lo10 == n.lo * base + DigitVal(s[i])
             hi10 == n.hi * base + lo10 \div Limb
         IN  IF hi10 >= Limb \div 2
             THEN [val |-> MaxUint32, err |-> ErrRange]
             ELSE ParseLoopSigned(s, i + 1, U32(hi10, lo10 % Limb))

\* The digit loop of strconv.ParseUint(s, 10, 32): the first character that is
\* no decimal digit is a syntax error, the first digit that takes the value
\* above 2^32 - 1 a range error (the maximum value is returned with it).
RECURSIVE ParseLoop(_, _, _)
ParseLoop(s, i, n) ==
    IF i > Len(s) THEN [val |-> n, err |-> NoError]
    ELSE IF ~IsDigit(s[i]) THEN [val |-> Zero32, err |-> ErrSyntax]
    ELSE LET lo10 == n.lo * base + DigitVal(s[i])
             hi10 == n.hi * base + lo10 \div Limb
         IN  IF hi10 >= Limb
             THEN [val |-> MaxUint32, err |-> ErrRange]
             ELSE ParseLoop(s, i + 1, U32(hi10, lo10 % Limb))

\* strconv.ParseUint(s, 10, 32): the empty text is a syntax error.
ParseUint(s) ==
    IF s = <<>> THEN [val |-> Zero32, err |-> ErrSyntax]
    ELSE ParseLoop(s, 1, Zero32)

----------------------------------------------------------------------------
(* Checksum codec and ACL preset, collaborators of the handler *)

\* checksum.EncodedMd5Hash(content): a deterministic text of the content.
\* The digest itself is not computed; distinct contents of the model get
\* distinct texts.
EncodedMd5Hash(content) == <<"m", "d", "5", ":">> \o content \o <<"=", "=">>

\* One character of fmt.Sprintf("%q", s): quote and backslash are escaped.
QuoteChar(c) ==
    IF c = "\"" \/ c = "\\" THEN <<"\\", c>> ELSE <<c>>

RECURSIVE QuoteBody(_)
QuoteBody(s) ==
    IF s = <<>> THEN <<>> ELSE QuoteChar(Head(s)) \o QuoteBody(Tail(s))

\* fmt.Sprintf("%q", md5Hash): the text as a double-quoted string literal.
Quote(s) == <<"\"">> \o QuoteBody(s) \o <<"\"">>

\* getObjectACL(spec.PredefinedAcl): the preset expanded to an entry list.
getObjectACL(preset) ==
    IF preset = "publicRead"
    THEN <<[Entity |-> "allUsers", Role |-> "READER"]>>
    ELSE <<[Entity |-> "projectOwner", Role |-> "OWNER"]>>

----------------------------------------------------------------------------
(* The client's stream *)

Contents == { <<>>, <<"h">>, <<"h", "i">> }

Resources ==
    { [Bucket |-> "b", Name |-> "o", ContentType |-> "text/plain",
       ContentEncoding |-> ""] }

\* pb.WriteObjectSpec: Resource is a pointer and may be nil
Specs ==
    [Resource : {None} \cup {Some(r) : r \in Resources},
     PredefinedAcl : {"", "publicRead"}]

\* pb.ChecksummedData: Crc32C is an optional field
ChecksummedData ==
    [Content : Contents, Crc32C : {None} \cup {Some(x) : x \in CrcValues}]

\* pb.WriteObjectRequest: the first_message and data oneofs
FirstMessages ==
    [spec : {None} \cup {Some(sp) : sp \in Specs},
     data : {None} \cup {Some(d) : d \in ChecksummedData}]

\* Later messages of a stream carry data only
DataFrames ==
    [spec : {None},
     data : {Some([Content |-> c, Crc32C |-> None]) : c \in Contents \ {<<>>}}]

RECURSIVE Tails(_)
Tails(n) ==
    IF n = 0 THEN {<<>>}
    ELSE Tails(n - 1) \cup
         {t \o <<f>> : t \in {u \in Tails(n - 1) : Len(u) = n - 1}, f \in DataFrames}

Streams ==
    {<<>>} \cup {<<m>> \o t : m \in FirstMessages, t \in Tails(MaxFrames - 1)}

----------------------------------------------------------------------------
(* The backend *)

\* Crc32c texts a backend may hand back in place of the one it was given:
\* stripped, signed, not a number, padded, beyond 32 bits, and a different
\* but well-formed number.
MutatedCrcTexts ==
    { <<>>, <<"-", "1">>, <<"+", "7">>, <<"1", "2", "a">>, <<" ", "7">>,
      <<"4", "2", "9", "4", "9", "6", "7", "2", "9", "6">>,
      <<"9", "9", "9", "9", "9", "9", "9", "9", "9", "9", "9">>,
      <<"0", "0", "7">> }

OtherMd5 == <<"m", "d", "5", ":", "x", "=", "=">>

\* The records backend.CreateObject may return for a write request: the
\* request with a generation assigned, its checksum text, content hash and
\* entity tag kept or replaced.
BackendResults(r) ==
    { [r EXCEPT !.Crc32c = c, !.Md5Hash = m, !.Etag = e, !.Generation = 1] :
        c \in {r.Crc32c} \cup MutatedCrcTexts,
        m \in {r.Md5Hash, OtherMd5},
        e \in {r.Etag, <<>>} }

\* fromBackendObjects([]backend.Object{backendObj})[0]: field-by-field copy
fromBackendObjects(o) ==
    [BucketName |-> o.BucketName, Name |-> o.Name,
     ContentType |-> o.ContentType, ContentEncoding |-> o.ContentEncoding,
     Md5Hash |-> o.Md5Hash, Etag |-> o.Etag, ACL |-> o.ACL,
     Content |-> o.Content, Crc32c |-> o.Crc32c, Generation |-> o.Generation]

----------------------------------------------------------------------------
(* StorageServer.WriteObject *)

\* req.GetChecksummedData() and req.GetWriteObjectSpec(): nil on a nil request
GetChecksummedData(req) == IF req = None THEN None ELSE Get(req).data
GetWriteObjectSpec(req) == IF req = None THEN None ELSE Get(req).spec

\* Rejects without the check of the spec
RejectsDataOnly(req) == GetChecksummedData(req) = None

\* if data == nil { return errUnsupportedWriteOperation }
\* if spec == nil { return errUnsupportedWriteOperation }
Rejects(req) ==
    GetChecksummedData(req) = None \/ GetWriteObjectSpec(req) = None

\* The pointers the construction of reqObj dereferences: data (data.Content),
\* spec (spec.Resource) and spec.Resource (spec.Resource.Bucket)
NilDereference(req) ==
    \/ GetChecksummedData(req) = None
    \/ GetWriteObjectSpec(req) = None
    \/ Get(GetWriteObjectSpec(req)).Resource = None

\* reqObj := backend.Object{...}; if data.Crc32C != nil { reqObj.Crc32c = ... }
BuildReqObj(spec, data) ==
    LET md5Hash == EncodedMd5Hash(data.Content)
        res == Get(spec.Resource)
    IN  [BucketName |-> res.Bucket, Name |-> res.Name,
         ContentType |-> res.ContentType,
         ContentEncoding |-> res.ContentEncoding,
         Md5Hash |-> md5Hash, Etag |-> Quote(md5Hash),
         ACL |-> getObjectACL(spec.PredefinedAcl),
         Content |-> data.Content,
         Crc32c |-> IF data.Crc32C # None
                    THEN FormatUint(Get(data.Crc32C)) ELSE <<>>,
         Generation |-> 0]

\* CreateFailed with the error of CreateObject ignored
CreateFailedIgnored(err) == FALSE

\* if err != nil { return err } after backend.CreateObject
CreateFailed(err) == err # NoError

\* ParseFailed with the error of ParseUint ignored
ParseFailedIgnored(p) == FALSE

\* if err != nil { return err } after strconv.ParseUint
ParseFailed(p) == p.err # NoError

\* The pb.Object of the response.  Etag is not among the fields the handler
\* sets and stays at its zero value.
WireObject(o, crc) ==
    [Name |-> o.Name, Bucket |-> o.BucketName, Size |-> Len(o.Content),
     Generation |-> o.Generation, ContentType |-> o.ContentType,
     ContentEncoding |-> o.ContentEncoding,
     Checksums |-> [Crc32C |-> crc, Md5Hash |-> o.Md5Hash],
     Acl |-> o.ACL, Etag |-> <<>>]

Init ==
    /\ stream \in Streams
    /\ pc = "AwaitingSpec"
    /\ recvErr = NoError
    /\ reqObj = None
    /\ createCalls = 0
    /\ createOK = 0
    /\ createErr = NoError
    /\ created = None
    /\ crc32c = None
    /\ sendCalls = 0
    /\ resp = None
    /\ ret = Running

\* Lines 81-105, given what writeServer.Recv returned.  The error of Recv is
\* assigned to err and not looked at.
AfterRecv(req, err) ==
    /\ recvErr' = err
    /\ IF Rejects(req)
       THEN /\ pc' = "Failed"
            /\ ret' = errUnsupportedWriteOperation
            /\ reqObj' = reqObj
       ELSE IF NilDereference(req)
       THEN /\ pc' = "Panicked"
            /\ UNCHANGED <<ret, reqObj>>
       ELSE /\ pc' = "Committing"
            /\ reqObj' = Some(BuildReqObj(Get(GetWriteObjectSpec(req)),
                                          Get(GetChecksummedData(req))))
            /\ ret' = ret
    /\ UNCHANGED <<stream, createCalls, createOK, createErr, created, crc32c,
                   sendCalls, resp>>

\* writeServer.Recv() delivers the first message of the stream
RecvMessage ==
    /\ pc = "AwaitingSpec"
    /\ stream # <<>>
    /\ AfterRecv(Some(Head(stream)), NoError)

\* writeServer.Recv() fails: the stream ended before a message (only when the
\* client sent none) or the connection errored
RecvError ==
    /\ pc = "AwaitingSpec"
    /\ \E e \in RecvErrors :
          /\ e = "EOF" => stream = <<>>
          /\ AfterRecv(None, e)

\* Lines 106-132: backend.CreateObject(reqObj) returns (backendObj, err)
CreateObject ==
    /\ pc = "Committing"
    /\ createCalls' = createCalls + 1
    /\ \E err \in {NoError} \cup BackendErrors,
          backendObj \in BackendResults(Get(reqObj)) :
          /\ createErr' = err
          /\ createOK' = createOK + (IF err = NoError THEN 1 ELSE 0)
          /\ IF CreateFailed(err)
             THEN /\ pc' = "Failed"
                  /\ ret' = err
                  /\ UNCHANGED <<created, crc32c>>
             ELSE LET c == fromBackendObjects(backendObj)
                      p == ParseUint(c.Crc32c)
                  IN  /\ created' = Some(c)
                      /\ IF ParseFailed(p)
                         THEN /\ pc' = "Failed"
                              /\ ret' = p.err
                              /\ crc32c' = crc32c
                         ELSE /\ pc' = "Sending"
                              /\ crc32c' = Some(p.val)
                              /\ ret' = ret
    /\ UNCHANGED <<stream, recvErr, reqObj, sendCalls, resp>>

\* Lines 133-153: return writeServer.SendAndClose(response)
SendAndClose ==
    /\ pc = "Sending"
    /\ sendCalls' = sendCalls + 1
    /\ resp' = Some(WireObject(Get(created), Get(crc32c)))
    /\ \E err \in {NoError} \cup SendErrors :
          /\ ret' = err
          /\ pc' = IF err = NoError THEN "Acknowledged" ELSE "Failed"
    /\ UNCHANGED <<stream, recvErr, reqObj, createCalls, createOK, createErr,
                   created, crc32c>>

Next == RecvMessage \/ RecvError \/ CreateObject \/ SendAndClose

Spec == Init /\ [][Next]_vars

----------------------------------------------------------------------------
(* Vocabulary of the properties *)

\* Recv delivered the first message of the stream
Received == pc # "AwaitingSpec" /\ recvErr = NoError

First == Head(stream)

\* The checksum of the first frame (<<>> when it carries none)
FirstCrc == Get(First.data).Crc32C

\* The handler has ended: it returned, or it was unwound by a panic
Ended == pc \in {"Acknowledged", "Failed", "Panicked"}

ParseErrors == {ErrSyntax, ErrRange}

\* The errors WriteObject makes or passes on itself, as opposed to the
\* result of SendAndClose
OwnErrors == {errUnsupportedWriteOperation} \cup BackendErrors \cup ParseErrors

\* The payloads of all data frames of a stream, concatenated in arrival order
RECURSIVE Payload(_)
Payload(st) ==
    IF st = <<>> THEN <<>>
    ELSE (IF Head(st).data = None THEN <<>> ELSE Get(Head(st).data).Content)
         \o Payload(Tail(st))

\* The decimal expansions of the checksum values, written out
DecimalOf(x) ==
    CASE x = Zero32 -> <<"0">>
      [] x = U32(0, 7) -> <<"7">>
      [] x = U32(0, 10) -> <<"1", "0">>
      [] x = U32(0, Limb - 1) -> <<"6", "5", "5", "3", "5">>
      [] x = U32(1, 0) -> <<"6", "5", "5", "3", "6">>
      [] x = U32(Limb \div 2 - 1, Limb - 1) ->
            <<"2", "1", "4", "7", "4", "8", "3", "6", "4", "7">>
      [] x = U32(Limb \div 2, 0) ->
            <<"2", "1", "4", "7", "4", "8", "3", "6", "4", "8">>
      [] x = U32(Limb - 1, Limb - 2) ->
            <<"4", "2", "9", "4", "9", "6", "7", "2", "9", "4">>
      [] x = MaxUint32 ->
            <<"4", "2", "9", "4", "9", "6", "7", "2", "9", "5">>

MaxUint32Text == DecimalOf(MaxUint32)

RECURSIVE StripZeros(_)
StripZeros(s) ==
    IF Len(s) > 1 /\ Head(s) = "0" THEN StripZeros(Tail(s)) ELSE s

\* s <= t for digit texts of equal length, digit by digit from the left
RECURSIVE DigitsLeq(_, _)
DigitsLeq(s, t) ==
    \/ s = <<>>
    \/ DigitVal(Head(s)) < DigitVal(Head(t))
    \/ Head(s) = Head(t) /\ DigitsLeq(Tail(s), Tail(t))

\* The text is a decimal numeral of a value in 0 .. 4294967295
IsUint32Text(s) ==
    /\ s # <<>>
    /\ \A i \in 1..Len(s) : IsDigit(s[i])
    /\ LET t == StripZeros(s)
       IN  \/ Len(t) < Len(MaxUint32Text)
           \/ Len(t) = Len(MaxUint32Text) /\ DigitsLeq(t, MaxUint32Text)

----------------------------------------------------------------------------
(* Properties *)

\* C1, as stated: after a first message without a non-empty data payload or
\* without a spec WriteObject does not go on to the commit, returns nothing
\* but errUnsupportedWriteOperation, sends no response and never invokes
\* CreateObject.
C1_NonEmptyDataRequired ==
    (Received /\ ( \/ First.data = None
                   \/ Get(First.data).Content = <<>>
                   \/ First.spec = None ))
    => /\ pc # "Committing"
       /\ ret # Running => ret = errUnsupportedWriteOperation
       /\ sendCalls = 0
       /\ createCalls = 0

\* C1, amended: a first message without a data payload (an empty payload is
\* a payload) or without a spec makes WriteObject fail with
\* errUnsupportedWriteOperation, with no response sent and CreateObject never
\* invoked.
C1_RejectsMissingDataOrSpec ==
    (Received /\ (First.data = None \/ First.spec = None))
    => /\ pc = "Failed"
       /\ ret = errUnsupportedWriteOperation
       /\ sendCalls = 0
       /\ resp = None
       /\ createCalls = 0

\* A first message with data and no spec has been rejected
C1_Witness ==
    /\ Received
    /\ First.data # None
    /\ First.spec = None
    /\ pc = "Failed"
    /\ ret = errUnsupportedWriteOperation

\* C2: SendAndClose is called at most once per stream and only after the one
\* CreateObject call returned without error; no response is sent when
\* WriteObject returns an error of its own.
C2_ResponseOnceAfterCommit ==
    /\ sendCalls <= 1
    /\ sendCalls >= 1 => (createCalls = 1 /\ createOK = 1 /\ resp # None)
    /\ createOK = 0 => (sendCalls = 0 /\ resp = None)
    /\ ret \in OwnErrors => (sendCalls = 0 /\ resp = None)

\* The response was sent after a successful commit and acknowledged
C2_Witness ==
    /\ pc = "Acknowledged"
    /\ sendCalls = 1
    /\ createOK = 1
    /\ ret = NoError

\* C3: a stream that passes the validation of its first message has
\* CreateObject invoked exactly once by the time the handler ends (never more
\* than once before); an error of CreateObject is returned as it is, with no
\* response sent.
C3_CreateExactlyOnce ==
    (Received /\ First.data # None /\ First.spec # None)
    => /\ createCalls <= 1
       /\ Ended => createCalls = 1
       /\ createErr # NoError => (ret = createErr /\ sendCalls = 0)

\* C4: the Content handed to CreateObject is the concatenation of the
\* payloads of all data frames of the stream, in arrival order.
C4_ContentIsAllFrames ==
    createCalls >= 1 => Get(reqObj).Content = Payload(stream)

\* C5: a first message with spec and data and no checksum gives a write
\* request with an empty Crc32c, and when CreateObject succeeds and returns
\* that field unchanged the upload does not fail for it (it is acknowledged,
\* or fails by the transport's send error only).
C5_NoChecksumIsLegal ==
    (reqObj # None /\ FirstCrc = None)
    => /\ Get(reqObj).Crc32c = <<>>
       /\ (createOK = 1 /\ Get(created).Crc32c = Get(reqObj).Crc32c)
          => (pc \in {"Sending", "Acknowledged"} \/ ret \in SendErrors)

\* C6: for every checksum value X of the first frame the write request's
\* Crc32c is the decimal text of X, and when the backend returns that text
\* unchanged the text parses, and the response carries exactly X.
C6_ChecksumRoundTrip ==
    \A x \in CrcValues :
        (reqObj # None /\ FirstCrc = Some(x))
        => /\ Get(reqObj).Crc32c = DecimalOf(x)
           /\ (createOK = 1 /\ Get(created).Crc32c = Get(reqObj).Crc32c)
              => /\ crc32c = Some(x)
                 /\ ret \notin ParseErrors
                 /\ sendCalls = 1 => Get(resp).Checksums.Crc32C = x

\* The checksum 4294967295 went to the backend and came back in the response
C6_Witness ==
    /\ pc = "Acknowledged"
    /\ FirstCrc = Some(MaxUint32)
    /\ Get(created).Crc32c = MaxUint32Text
    /\ Get(resp).Checksums.Crc32C = MaxUint32

\* C7: when the object returned by a successful CreateObject carries a
\* Crc32c that is no decimal numeral of an unsigned 32-bit value, WriteObject
\* returns the parse error and no response is sent.
C7_BadChecksumFailsLoudly ==
    (createOK = 1 /\ ~IsUint32Text(Get(created).Crc32c))
    => /\ pc = "Failed"
       /\ ret \in ParseErrors
       /\ sendCalls = 0
       /\ resp = None

\* The backend returned a checksum text beyond 32 bits and the upload failed
\* with the range error
C7_Witness ==
    /\ createOK = 1
    /\ Get(created).Crc32c # <<>>
    /\ ~IsUint32Text(Get(created).Crc32c)
    /\ pc = "Failed"
    /\ ret = ErrRange
    /\ sendCalls = 0

\* C8: the object sent in the response has etag = quote(md5Hash) of the
\* object the backend returned.
C8_ResponseEtagIsQuotedHash ==
    resp # None => Get(resp).Etag = Quote(Get(created).Md5Hash)

\* C9: when Recv fails with an error, WriteObject returns that error and
\* CreateObject is not invoked.
C9_RecvErrorReturned ==
    (pc # "AwaitingSpec" /\ recvErr # NoError)
    => (ret = recvErr /\ createCalls = 0)

\* C10, as stated: a failed upload has no successful CreateObject call; a
\* successful CreateObject is followed by Acknowledged, never by Failed.
C10_FailedMeansNothingCommitted ==
    pc = "Failed" => createOK = 0

\* C10, amended: CreateObject is invoked at most once per stream; an upload
\* that fails with errUnsupportedWriteOperation or with the backend's error
\* has no successful CreateObject call; an upload that failed after a
\* successful CreateObject failed with the checksum parse error or with the
\* error of SendAndClose; an acknowledged upload has one successful
\* CreateObject call.
C10_FailureBeforeCommitLeavesNothing ==
    /\ createCalls <= 1
    /\ createOK <= createCalls
    /\ ret \in ({errUnsupportedWriteOperation} \cup BackendErrors)
       => createOK = 0
    /\ (pc = "Failed" /\ createOK >= 1) => ret \in (ParseErrors \cup SendErrors)
    /\ pc = "Acknowledged" => createOK = 1

\* The backend refused the write and the upload failed with nothing committed
C10_Witness ==
    /\ pc = "Failed"
    /\ createCalls = 1
    /\ createOK = 0
    /\ ret \in BackendErrors

====
